---- MODULE Spec2Model ----
(***************************************************************************)
(* A model of the Fibonacci heap of src/fheap.go.                          *)
(*                                                                         *)
(* Memory is a sequence of Entry records; the address of an entry is its   *)
(* index, and Nil (0) is Go's nil pointer.  An entry that has been removed *)
(* from a heap stays in memory with whatever links it had, as a Go object  *)
(* the caller still holds.  A heap is a record [min, size].  Every         *)
(* function of the source is an operator that maps a memory (and a heap)   *)
(* to the memory (and heap) the function leaves behind.                    *)
(***************************************************************************)
EXTENDS Integers, Sequences, FiniteSets

\* ------------------------------------------------------------- bounds ---

\* Entries allocated by Enqueue over a whole run of a program with one heap.
MaxEntries == 5

\* Entries allocated over a whole run of a program with several heaps.
MaxMergeEntries == 4

\* Largest finite priority used as an input; inputs are NegInf, 0..MaxPri.
MaxPri == 0

\* Heap objects over a whole run; those beyond the first two come of merges.
MaxHeaps == 3

\* Entries enqueued before a drain (specification SpecDrain).
MaxFill == 5

\* Largest priority enqueued before a drain; inputs are 0..MaxDrainPri.
MaxDrainPri == 3

\* Entries enqueued into the heap of specification SpecDeep before its
\* first DequeueMin: 9 leave one tree of 8 entries, of degree 3.
MaxDeepFill == 9

\* Entries that DequeueMin and Delete take out of the heap of SpecDeep.
MaxDeepRemovals == 2

\* DecreaseKey is called in SpecDeep while the heap has fewer roots.
MaxDeepRoots == 4

\* Entries enqueued into the heap of specification SpecRace before its
\* threads make their calls.
MaxRacePrefill == 2

\* Threads of specification SpecRace; each makes one call.
MaxRaceThreads == 2

\* ---------------------------------------------------------- constants ---

\* Go's nil pointer.
Nil == 0

\* math.Inf(-1): below every finite priority.
NegInf == -1

Priorities == {NegInf} \cup (0..MaxPri)

DrainPriorities == 0..MaxDrainPri

VARIABLES
    mem,      \* Seq(Entry): every Entry allocated so far
    heaps,    \* Seq(FibHeap): every FibHeap object, [min, size]
    held,     \* held[h]: the entries put into heap h and not yet taken out
    last,     \* the last public call: its name and the error it returned
    drained,  \* what the DequeueMin calls of a drain returned, in order
    run,      \* the call that is executed loop pass by loop pass, if any
    race      \* the threads that call the heap statement by statement

vars == <<mem, heaps, held, last, drained, run, race>>

\* ------------------------------------------------------------- Entry ----

newEntry(addr, priority) ==
    [degree |-> 0, marked |-> FALSE, next |-> addr, prev |-> addr,
     parent |-> Nil, child |-> Nil, Priority |-> priority]

EmptyHeap == [min |-> Nil, size |-> 0]

\* Statement sequencing.  Do([x \in {e} |-> body]) is "x := e; body": the
\* value of body with x bound to the value of e, e being evaluated once.
Do(f) == f[CHOOSE k \in DOMAIN f : TRUE]

\* --------------------------------------------------------- mergeLists ---

\* mergeLists as it would be if it returned `one` without comparing.
mergeLists_ReturnsOne(m, one, two) ==
    IF one = Nil /\ two = Nil THEN [mem |-> m, ret |-> Nil]
    ELSE IF one # Nil /\ two = Nil THEN [mem |-> m, ret |-> one]
    ELSE IF one = Nil /\ two # Nil THEN [mem |-> m, ret |-> two]
    ELSE
        Do([oneNext \in {m[one].next} |->
        Do([m1 \in {[m EXCEPT ![one].next = m[two].next]} |->
        Do([m2 \in {[m1 EXCEPT ![m1[one].next].prev = one]} |->
        Do([m3 \in {[m2 EXCEPT ![two].next = oneNext]} |->
        Do([m4 \in {[m3 EXCEPT ![m3[two].next].prev = two]} |->
            [mem |-> m4, ret |-> one]
        ])])])])])

mergeLists(m, one, two) ==
    IF one = Nil /\ two = Nil THEN [mem |-> m, ret |-> Nil]
    ELSE IF one # Nil /\ two = Nil THEN [mem |-> m, ret |-> one]
    ELSE IF one = Nil /\ two # Nil THEN [mem |-> m, ret |-> two]
    ELSE
        Do([oneNext \in {m[one].next} |->
        Do([m1 \in {[m EXCEPT ![one].next = m[two].next]} |->
        Do([m2 \in {[m1 EXCEPT ![m1[one].next].prev = one]} |->
        Do([m3 \in {[m2 EXCEPT ![two].next = oneNext]} |->
        Do([m4 \in {[m3 EXCEPT ![m3[two].next].prev = two]} |->
            [mem |-> m4,
             ret |-> IF m4[one].Priority < m4[two].Priority THEN one ELSE two]
        ])])])])])

\* ------------------------------------------------------------ Enqueue ---

\* Enqueue as it would be if it dropped the pointer mergeLists returns.
Enqueue_IgnoresReturn(m, f, priority) ==
    Do([result \in {Len(m) + 1} |->
    Do([m0 \in {Append(m, newEntry(result, priority))} |->
    Do([ml \in {mergeLists(m0, f.min, result)} |->
        [mem |-> ml.mem,
         f   |-> [min |-> IF f.min = Nil THEN ml.ret ELSE f.min,
                  size |-> f.size + 1],
         ret |-> result]
    ])])])

\* Enqueue as it would be without f.size += 1.
Enqueue_NoCount(m, f, priority) ==
    Do([result \in {Len(m) + 1} |->
    Do([m0 \in {Append(m, newEntry(result, priority))} |->
    Do([ml \in {mergeLists(m0, f.min, result)} |->
        [mem |-> ml.mem,
         f   |-> [min |-> ml.ret, size |-> f.size],
         ret |-> result]
    ])])])

Enqueue(m, f, priority) ==
    Do([result \in {Len(m) + 1} |->
    Do([m0 \in {Append(m, newEntry(result, priority))} |->
    Do([ml \in {mergeLists(m0, f.min, result)} |->
        [mem |-> ml.mem,
         f   |-> [min |-> ml.ret, size |-> f.size + 1],
         ret |-> result]
    ])])])

Min(f) == f.min

HeapLen(f) == f.size

\* ------------------------------------------------------- MergeFibHeap ---

\* The three heaps after the call: the result, and the two inputs emptied.
\* MergeFibHeap as it would be without one.min = nil and two.min = nil.
MergeFibHeap_KeepsInputs(m, one, two) ==
    Do([ml \in {mergeLists(m, one.min, two.min)} |->
        [mem    |-> ml.mem,
         result |-> [min |-> ml.ret, size |-> one.size + two.size],
         one    |-> [min |-> one.min, size |-> 0],
         two    |-> [min |-> two.min, size |-> 0]]
    ])

MergeFibHeap(m, one, two) ==
    Do([ml \in {mergeLists(m, one.min, two.min)} |->
        [mem    |-> ml.mem,
         result |-> [min |-> ml.ret, size |-> one.size + two.size],
         one    |-> [min |-> Nil, size |-> 0],
         two    |-> [min |-> Nil, size |-> 0]]
    ])

\* --------------------------------------------------------- DequeueMin ---

\* unlinkMin as it would be without f.min = nil for a root ring of one.
unlinkMin_KeepsMin(m, fmin) ==
    IF m[fmin].next = fmin
    THEN [mem |-> m, min |-> fmin]
    ELSE
        Do([m1 \in {[m EXCEPT ![m[fmin].prev].next = m[fmin].next]} |->
        Do([m2 \in {[m1 EXCEPT ![m1[fmin].next].prev = m1[fmin].prev]} |->
            [mem |-> m2, min |-> m2[fmin].next]
        ])])

\* unlinkMin as it would be without f.min.next.prev = f.min.prev.
unlinkMin_KeepsPrev(m, fmin) ==
    IF m[fmin].next = fmin
    THEN [mem |-> m, min |-> Nil]
    ELSE
        Do([m1 \in {[m EXCEPT ![m[fmin].prev].next = m[fmin].next]} |->
            [mem |-> m1, min |-> m1[fmin].next]
        ])

\* Take f.min out of the root ring; f.min becomes its successor, or nil.
unlinkMin(m, fmin) ==
    IF m[fmin].next = fmin
    THEN [mem |-> m, min |-> Nil]
    ELSE
        Do([m1 \in {[m EXCEPT ![m[fmin].prev].next = m[fmin].next]} |->
        Do([m2 \in {[m1 EXCEPT ![m1[fmin].next].prev = m1[fmin].prev]} |->
            [mem |-> m2, min |-> m2[fmin].next]
        ])])

\* The loop that clears the parent of every member of the ring of `first`.
RECURSIVE clearParents(_, _, _)
\* clearParents as it would be if it left the loop after its first pass.
clearParents_FirstOnly(m, curr, first) ==
    [m EXCEPT ![curr].parent = Nil]

clearParents(m, curr, first) ==
    Do([m1 \in {[m EXCEPT ![curr].parent = Nil]} |->
    Do([nxt \in {m1[curr].next} |->
        IF nxt = first THEN m1 ELSE clearParents(m1, nxt, first)
    ])])

\* The loop that collects the root ring into toVisit, starting at f.min.
RECURSIVE collectRoots(_, _, _)
collectRoots(m, curr, toVisit) ==
    IF ~(Len(toVisit) = 0 \/ toVisit[1] # curr) THEN toVisit
    ELSE
        Do([nxt \in {m[curr].next} |->
        Do([toVisit1 \in {Append(toVisit, curr)} |->
            collectRoots(m, nxt, toVisit1)
        ])])

\* The loop that fills toVisit, given up after n passes: seen is toVisit,
\* and back tells whether the loop has ended, curr being toVisit[0] again.
RECURSIVE collectRootsWithin(_, _, _, _)
collectRootsWithin(m, curr, toVisit, n) ==
    IF ~(Len(toVisit) = 0 \/ toVisit[1] # curr)
    THEN [seen |-> toVisit, back |-> TRUE]
    ELSE IF n = 0 \/ curr = Nil THEN [seen |-> toVisit, back |-> FALSE]
    ELSE collectRootsWithin(m, m[curr].next, Append(toVisit, curr), n - 1)

\* for curr.degree >= len(treeTable) { treeTable = append(treeTable, nil) };
\* the slot of degree d is treeTable[d + 1].
RECURSIVE growTable(_, _)
growTable(treeTable, degree) ==
    IF degree >= Len(treeTable)
    THEN Do([tt \in {Append(treeTable, Nil)} |-> growTable(tt, degree)])
    ELSE treeTable

\* The body of the merging loop for two roots of the same degree: max
\* leaves the root ring and becomes a child of min.
\* linkRoots as it would be if the result of mergeLists(min.child, max)
\* were dropped, min.child staying what it was.
linkRoots_DropsChild(m, min, max) ==
    Do([m1 \in {[m EXCEPT ![m[max].next].prev = m[max].prev]} |->
    Do([m2 \in {[m1 EXCEPT ![m1[max].prev].next = m1[max].next]} |->
    Do([m3 \in {[m2 EXCEPT ![max].next = max]} |->
    Do([m4 \in {[m3 EXCEPT ![max].prev = max]} |->
    Do([ml \in {mergeLists(m4, m4[min].child, max)} |->
    Do([m6 \in {[ml.mem EXCEPT ![max].parent = min]} |->
    Do([m7 \in {[m6 EXCEPT ![max].marked = FALSE]} |->
        [m7 EXCEPT ![min].degree = m7[min].degree + 1]
    ])])])])])])])

\* linkRoots as it would be if it set the mark of min, the root that stays,
\* and not only cleared that of max.
linkRoots_MarksWinner(m, min, max) ==
    Do([m1 \in {[m EXCEPT ![m[max].next].prev = m[max].prev]} |->
    Do([m2 \in {[m1 EXCEPT ![m1[max].prev].next = m1[max].next]} |->
    Do([m3 \in {[m2 EXCEPT ![max].next = max]} |->
    Do([m4 \in {[m3 EXCEPT ![max].prev = max]} |->
    Do([ml \in {mergeLists(m4, m4[min].child, max)} |->
    Do([m5 \in {[ml.mem EXCEPT ![min].child = ml.ret]} |->
    Do([m6 \in {[m5 EXCEPT ![max].parent = min]} |->
    Do([m7 \in {[m6 EXCEPT ![max].marked = FALSE, ![min].marked = TRUE]} |->
        [m7 EXCEPT ![min].degree = m7[min].degree + 1]
    ])])])])])])])])

linkRoots(m, min, max) ==
    Do([m1 \in {[m EXCEPT ![m[max].next].prev = m[max].prev]} |->
    Do([m2 \in {[m1 EXCEPT ![m1[max].prev].next = m1[max].next]} |->
    Do([m3 \in {[m2 EXCEPT ![max].next = max]} |->
    Do([m4 \in {[m3 EXCEPT ![max].prev = max]} |->
    Do([ml \in {mergeLists(m4, m4[min].child, max)} |->
    Do([m5 \in {[ml.mem EXCEPT ![min].child = ml.ret]} |->
    Do([m6 \in {[m5 EXCEPT ![max].parent = min]} |->
    Do([m7 \in {[m6 EXCEPT ![max].marked = FALSE]} |->
        [m7 EXCEPT ![min].degree = m7[min].degree + 1]
    ])])])])])])])])

\* The inner for { ... } of the consolidation: keep merging until the slot of
\* curr's degree is free.
RECURSIVE mergeUntilFree(_, _, _)
\* mergeUntilFree as it would be with the root of larger priority taken for
\* min (the comparison of other and curr reversed).
mergeUntilFree_LargerOnTop(m, treeTable, curr) ==
    Do([tt \in {growTable(treeTable, m[curr].degree)} |->
    Do([d \in {m[curr].degree + 1} |->
        IF tt[d] = Nil
        THEN [mem |-> m, treeTable |-> [tt EXCEPT ![d] = curr], curr |-> curr]
        ELSE
            Do([other \in {tt[d]} |->
            Do([tt1 \in {[tt EXCEPT ![d] = Nil]} |->
            Do([min \in {IF m[other].Priority > m[curr].Priority
                         THEN other ELSE curr} |->
            Do([max \in {IF m[other].Priority > m[curr].Priority
                         THEN curr ELSE other} |->
            Do([m1 \in {linkRoots(m, min, max)} |->
                mergeUntilFree(m1, tt1, min)
            ])])])])])
    ])])

\* mergeUntilFree as it would be if it merged once and stored the winner
\* in the slot of its new degree without looking at what the slot holds.
mergeUntilFree_MergesOnce(m, treeTable, curr) ==
    Do([tt \in {growTable(treeTable, m[curr].degree)} |->
    Do([d \in {m[curr].degree + 1} |->
        IF tt[d] = Nil
        THEN [mem |-> m, treeTable |-> [tt EXCEPT ![d] = curr], curr |-> curr]
        ELSE
            Do([other \in {tt[d]} |->
            Do([tt1 \in {[tt EXCEPT ![d] = Nil]} |->
            Do([min \in {IF m[other].Priority < m[curr].Priority
                         THEN other ELSE curr} |->
            Do([max \in {IF m[other].Priority < m[curr].Priority
                         THEN curr ELSE other} |->
            Do([m1 \in {linkRoots(m, min, max)} |->
            Do([tt2 \in {growTable(tt1, m1[min].degree)} |->
                [mem |-> m1,
                 treeTable |-> [tt2 EXCEPT ![m1[min].degree + 1] = min],
                 curr |-> min]
            ])])])])])])
    ])])

mergeUntilFree(m, treeTable, curr) ==
    Do([tt \in {growTable(treeTable, m[curr].degree)} |->
    Do([d \in {m[curr].degree + 1} |->
        IF tt[d] = Nil
        THEN [mem |-> m, treeTable |-> [tt EXCEPT ![d] = curr], curr |-> curr]
        ELSE
            Do([other \in {tt[d]} |->
            Do([tt1 \in {[tt EXCEPT ![d] = Nil]} |->
            Do([min \in {IF m[other].Priority < m[curr].Priority
                         THEN other ELSE curr} |->
            Do([max \in {IF m[other].Priority < m[curr].Priority
                         THEN curr ELSE other} |->
            Do([m1 \in {linkRoots(m, min, max)} |->
                mergeUntilFree(m1, tt1, min)
            ])])])])])
    ])])

\* for _, curr := range toVisit { ... }, from index i on.
RECURSIVE consolidate(_, _, _, _, _)
\* consolidate as it would be with curr.Priority < f.min.Priority for the
\* update of f.min.
consolidate_StrictLess(m, fmin, treeTable, toVisit, i) ==
    IF i > Len(toVisit) THEN [mem |-> m, min |-> fmin]
    ELSE
        Do([r \in {mergeUntilFree(m, treeTable, toVisit[i])} |->
        Do([fmin1 \in {IF r.mem[r.curr].Priority < r.mem[fmin].Priority
                       THEN r.curr ELSE fmin} |->
        Do([j \in {i + 1} |->
            consolidate(r.mem, fmin1, r.treeTable, toVisit, j)
        ])])])

consolidate(m, fmin, treeTable, toVisit, i) ==
    IF i > Len(toVisit) THEN [mem |-> m, min |-> fmin]
    ELSE
        Do([r \in {mergeUntilFree(m, treeTable, toVisit[i])} |->
        Do([fmin1 \in {IF r.mem[r.curr].Priority <= r.mem[fmin].Priority
                       THEN r.curr ELSE fmin} |->
        Do([j \in {i + 1} |->
            consolidate(r.mem, fmin1, r.treeTable, toVisit, j)
        ])])])

\* DequeueMin from f.size -= 1 on: the heap is not empty.
extractMin(m, f) ==
    Do([size1 \in {f.size - 1} |->
    Do([minElem \in {f.min} |->
    Do([u \in {unlinkMin(m, minElem)} |->
    Do([m1 \in {IF u.mem[minElem].child # Nil
                THEN clearParents(u.mem, u.mem[minElem].child,
                                  u.mem[minElem].child)
                ELSE u.mem} |->
    Do([ml \in {mergeLists(m1, u.min, m1[minElem].child)} |->
        IF ml.ret = Nil
        THEN [mem |-> ml.mem, f |-> [min |-> Nil, size |-> size1],
              ret |-> minElem]
        ELSE
            Do([toVisit \in {collectRoots(ml.mem, ml.ret, <<>>)} |->
            Do([c \in {consolidate(ml.mem, ml.ret, <<>>, toVisit, 1)} |->
                [mem |-> c.mem, f |-> [min |-> c.min, size |-> size1],
                 ret |-> minElem]
            ])])
    ])])])])])

\* DequeueMin as it would be with f.size -= 1 above the test of f.size.
DequeueMin_DecrementsFirst(m, f) ==
    IF f.size = 0
    THEN [mem |-> m, f |-> [f EXCEPT !.size = f.size - 1], ret |-> Nil]
    ELSE extractMin(m, f)

DequeueMin(m, f) ==
    IF f.size = 0 THEN [mem |-> m, f |-> f, ret |-> Nil]
    ELSE extractMin(m, f)

\* ------------------------------------------------------------ cutNode ---

\* if e.next != e { e.next.prev = e.prev; e.prev.next = e.next }
\* unlinkSiblings as it would be without e.prev.next = e.next.
unlinkSiblings_KeepsNext(m, e) ==
    IF m[e].next # e
    THEN [m EXCEPT ![m[e].next].prev = m[e].prev]
    ELSE m

unlinkSiblings(m, e) ==
    IF m[e].next # e
    THEN Do([a \in {[m EXCEPT ![m[e].next].prev = m[e].prev]} |->
             [a EXCEPT ![a[e].prev].next = a[e].next]
         ])
    ELSE m

\* repointChild as it would be if it cleared the parent's child reference
\* whether or not e has siblings.
repointChild_ClearsChild(m, e, p) ==
    IF m[p].child = e
    THEN [m EXCEPT ![p].child = Nil]
    ELSE m

\* if e.parent.child == e { ... }: the parent's child reference moves to
\* another child, or is cleared.
repointChild(m, e, p) ==
    IF m[p].child = e
    THEN IF m[e].next # e
         THEN [m EXCEPT ![p].child = m[e].next]
         ELSE [m EXCEPT ![p].child = Nil]
    ELSE m

RECURSIVE cutNode(_, _, _)
\* cutNode as it would be without e.parent.degree -= 1.
cutNode_KeepsDegree(m, f, e) ==
    Do([m1 \in {[m EXCEPT ![e].marked = FALSE]} |->
        IF m1[e].parent = Nil THEN [mem |-> m1, f |-> f]
        ELSE
            Do([p  \in {m1[e].parent} |->
            Do([m2 \in {unlinkSiblings(m1, e)} |->
            Do([m3 \in {repointChild(m2, e, p)} |->
            Do([m5 \in {[m3 EXCEPT ![e].prev = e]} |->
            Do([m6 \in {[m5 EXCEPT ![e].next = e]} |->
            Do([ml \in {mergeLists(m6, f.min, e)} |->
            Do([f1 \in {[f EXCEPT !.min = ml.ret]} |->
            Do([r  \in {IF ml.mem[p].marked
                        THEN cutNode(ml.mem, f1, p)
                        ELSE [mem |-> [ml.mem EXCEPT ![p].marked = TRUE],
                              f   |-> f1]} |->
                [mem |-> [r.mem EXCEPT ![e].parent = Nil], f |-> r.f]
            ])])])])])])])])
    ])

\* cutNode as it would be if it marked e.parent without testing its mark.
cutNode_NoCascade(m, f, e) ==
    Do([m1 \in {[m EXCEPT ![e].marked = FALSE]} |->
        IF m1[e].parent = Nil THEN [mem |-> m1, f |-> f]
        ELSE
            Do([p  \in {m1[e].parent} |->
            Do([m2 \in {unlinkSiblings(m1, e)} |->
            Do([m3 \in {repointChild(m2, e, p)} |->
            Do([m4 \in {[m3 EXCEPT ![p].degree = m3[p].degree - 1]} |->
            Do([m5 \in {[m4 EXCEPT ![e].prev = e]} |->
            Do([m6 \in {[m5 EXCEPT ![e].next = e]} |->
            Do([ml \in {mergeLists(m6, f.min, e)} |->
            Do([f1 \in {[f EXCEPT !.min = ml.ret]} |->
            Do([r  \in {[mem |-> [ml.mem EXCEPT ![p].marked = TRUE],
                         f   |-> f1]} |->
                [mem |-> [r.mem EXCEPT ![e].parent = Nil], f |-> r.f]
            ])])])])])])])])])
    ])

\* cutNode as it would be without its last if statement: no parent is
\* marked, none is cut in turn.
cutNode_NeverMarks(m, f, e) ==
    Do([m1 \in {[m EXCEPT ![e].marked = FALSE]} |->
        IF m1[e].parent = Nil THEN [mem |-> m1, f |-> f]
        ELSE
            Do([p  \in {m1[e].parent} |->
            Do([m2 \in {unlinkSiblings(m1, e)} |->
            Do([m3 \in {repointChild(m2, e, p)} |->
            Do([m4 \in {[m3 EXCEPT ![p].degree = m3[p].degree - 1]} |->
            Do([m5 \in {[m4 EXCEPT ![e].prev = e]} |->
            Do([m6 \in {[m5 EXCEPT ![e].next = e]} |->
            Do([ml \in {mergeLists(m6, f.min, e)} |->
            Do([f1 \in {[f EXCEPT !.min = ml.ret]} |->
            Do([r  \in {[mem |-> ml.mem, f |-> f1]} |->
                [mem |-> [r.mem EXCEPT ![e].parent = Nil], f |-> r.f]
            ])])])])])])])])])
    ])

cutNode(m, f, e) ==
    Do([m1 \in {[m EXCEPT ![e].marked = FALSE]} |->
        IF m1[e].parent = Nil THEN [mem |-> m1, f |-> f]
        ELSE
            Do([p  \in {m1[e].parent} |->
            Do([m2 \in {unlinkSiblings(m1, e)} |->
            Do([m3 \in {repointChild(m2, e, p)} |->
            Do([m4 \in {[m3 EXCEPT ![p].degree = m3[p].degree - 1]} |->
            Do([m5 \in {[m4 EXCEPT ![e].prev = e]} |->
            Do([m6 \in {[m5 EXCEPT ![e].next = e]} |->
            Do([ml \in {mergeLists(m6, f.min, e)} |->
            Do([f1 \in {[f EXCEPT !.min = ml.ret]} |->
            Do([r  \in {IF ml.mem[p].marked
                        THEN cutNode(ml.mem, f1, p)
                        ELSE [mem |-> [ml.mem EXCEPT ![p].marked = TRUE],
                              f   |-> f1]} |->
                [mem |-> [r.mem EXCEPT ![e].parent = Nil], f |-> r.f]
            ])])])])])])])])])
    ])

\* ----------------------------------------------- decreaseKeyUnchecked ---

\* decreaseKeyUnchecked as it would be without the final update of f.min.
decreaseKeyUnchecked_KeepsMin(m, f, e, priority) ==
    Do([m1 \in {[m EXCEPT ![e].Priority = priority]} |->
        IF m1[e].parent # Nil
           /\ m1[e].Priority <= m1[m1[e].parent].Priority
        THEN cutNode(m1, f, e)
        ELSE [mem |-> m1, f |-> f]
    ])

\* decreaseKeyUnchecked as it would be without the cut of e from its parent.
decreaseKeyUnchecked_NoCut(m, f, e, priority) ==
    Do([m1 \in {[m EXCEPT ![e].Priority = priority]} |->
        IF m1[e].Priority <= m1[f.min].Priority
        THEN [mem |-> m1, f |-> [f EXCEPT !.min = e]]
        ELSE [mem |-> m1, f |-> f]
    ])

\* decreaseKeyUnchecked as it would be with e.Priority < f.min.Priority
\* for the update of f.min.
decreaseKeyUnchecked_MinIfBelow(m, f, e, priority) ==
    Do([m1 \in {[m EXCEPT ![e].Priority = priority]} |->
    Do([c  \in {IF m1[e].parent # Nil
                   /\ m1[e].Priority <= m1[m1[e].parent].Priority
                THEN cutNode(m1, f, e)
                ELSE [mem |-> m1, f |-> f]} |->
        IF c.mem[e].Priority < c.mem[c.f.min].Priority
        THEN [mem |-> c.mem, f |-> [c.f EXCEPT !.min = e]]
        ELSE c
    ])])

\* decreaseKeyUnchecked as it would be if it cut every entry that has a
\* parent, whatever the two priorities.
decreaseKeyUnchecked_AlwaysCuts(m, f, e, priority) ==
    Do([m1 \in {[m EXCEPT ![e].Priority = priority]} |->
    Do([c  \in {IF m1[e].parent # Nil
                THEN cutNode(m1, f, e)
                ELSE [mem |-> m1, f |-> f]} |->
        IF c.mem[e].Priority <= c.mem[c.f.min].Priority
        THEN [mem |-> c.mem, f |-> [c.f EXCEPT !.min = e]]
        ELSE c
    ])])

decreaseKeyUnchecked(m, f, e, priority) ==
    Do([m1 \in {[m EXCEPT ![e].Priority = priority]} |->
    Do([c  \in {IF m1[e].parent # Nil
                   /\ m1[e].Priority <= m1[m1[e].parent].Priority
                THEN cutNode(m1, f, e)
                ELSE [mem |-> m1, f |-> f]} |->
        IF c.mem[e].Priority <= c.mem[c.f.min].Priority
        THEN [mem |-> c.mem, f |-> [c.f EXCEPT !.min = e]]
        ELSE c
    ])])

\* -------------------------------------------------------- DecreaseKey ---

ErrorExceedsPriority == "Error new priority exceeds old"

\* Go's nil error.
NoError == "nil"

\* DecreaseKey as it would be if it stored the priority before testing it.
DecreaseKey_SetsThenChecks(m, f, e, newPriority) ==
    IF newPriority > m[e].Priority
    THEN [mem |-> [m EXCEPT ![e].Priority = newPriority], f |-> f,
          err |-> ErrorExceedsPriority]
    ELSE Do([d \in {decreaseKeyUnchecked(m, f, e, newPriority)} |->
             [mem |-> d.mem, f |-> d.f, err |-> NoError]
         ])

DecreaseKey(m, f, e, newPriority) ==
    IF newPriority > m[e].Priority
    THEN [mem |-> m, f |-> f, err |-> ErrorExceedsPriority]
    ELSE Do([d \in {decreaseKeyUnchecked(m, f, e, newPriority)} |->
             [mem |-> d.mem, f |-> d.f, err |-> NoError]
         ])

\* ------------------------------------------------------------- Delete ---

\* Delete as it would be if it lowered the key to 0, not to -infinity.
Delete_ZeroKey(m, f, e) ==
    Do([d \in {decreaseKeyUnchecked(m, f, e, 0)} |->
    Do([q \in {DequeueMin(d.mem, d.f)} |->
        [mem |-> q.mem, f |-> q.f, removed |-> q.ret]
    ])])

\* Delete returns nothing; removed is the entry its DequeueMin took out.
Delete(m, f, e) ==
    Do([d \in {decreaseKeyUnchecked(m, f, e, NegInf)} |->
    Do([q \in {DequeueMin(d.mem, d.f)} |->
        [mem |-> q.mem, f |-> q.f, removed |-> q.ret]
    ])])

\* ------------------------------------------------------------ actions ---

Heaps == 1..Len(heaps)

Call(op, err) == [op |-> op, err |-> err]

\* No call is being executed pass by pass.
NoRun ==
    [pc |-> "idle", op |-> "none", e |-> Nil, minElem |-> Nil, curr |-> Nil,
     toVisit |-> <<>>, i |-> 0, treeTable |-> <<>>, stack |-> <<>>,
     m0 |-> <<>>, f0 |-> EmptyHeap,
     passes |-> 0, links |-> 0, recursions |-> 0]

\* No thread calls the heap.
NoRace == [useLock |-> FALSE, lock |-> 0, thr |-> <<>>]

\* An entry the heap has handed back is the caller's: no operation reads it
\* again (handles are valid), and the model lets go of its fields.
Released ==
    [degree |-> 0, marked |-> FALSE, next |-> Nil, prev |-> Nil,
     parent |-> Nil, child |-> Nil, Priority |-> 0]

Release(m, e) == IF e = Nil THEN m ELSE [m EXCEPT ![e] = Released]

\* A program has one heap, or two that it may merge.
Capacity == IF Len(heaps) = 1 THEN MaxEntries ELSE MaxMergeEntries

Init ==
    /\ mem = <<>>
    /\ heaps \in {<<EmptyHeap>>, <<EmptyHeap, EmptyHeap>>}
    /\ held = [h \in 1..Len(heaps) |-> {}]
    /\ last = Call("none", NoError)
    /\ drained = <<>>
    /\ run = NoRun
    /\ race = NoRace

EnqueueAction ==
    \E h \in Heaps, p \in Priorities :
        /\ Len(mem) < Capacity
        /\ \E r \in {Enqueue(mem, heaps[h], p)} :
               /\ mem' = r.mem
               /\ heaps' = [heaps EXCEPT ![h] = r.f]
               /\ held' = [held EXCEPT ![h] = @ \cup {r.ret}]
               /\ last' = Call("Enqueue", NoError)
        /\ UNCHANGED <<drained, run, race>>

DequeueMinAction ==
    \E h \in Heaps :
        /\ \E r \in {DequeueMin(mem, heaps[h])} :
               /\ mem' = Release(r.mem, r.ret)
               /\ heaps' = [heaps EXCEPT ![h] = r.f]
               /\ held' = [held EXCEPT ![h] = @ \ {r.ret}]
               /\ last' = Call("DequeueMin", NoError)
        /\ UNCHANGED <<drained, run, race>>

\* The handle is valid: e is an entry of heap h.
DecreaseKeyAction ==
    \E h \in Heaps :
        \E e \in held[h], p \in Priorities :
            /\ \E r \in {DecreaseKey(mem, heaps[h], e, p)} :
                   /\ mem' = r.mem
                   /\ heaps' = [heaps EXCEPT ![h] = r.f]
                   /\ last' = Call("DecreaseKey", r.err)
            /\ UNCHANGED <<held, drained, run, race>>

\* The handle is valid: e is an entry of heap h.
DeleteAction ==
    \E h \in Heaps :
        \E e \in held[h] :
            /\ \E r \in {Delete(mem, heaps[h], e)} :
                   /\ mem' = Release(r.mem, r.removed)
                   /\ heaps' = [heaps EXCEPT ![h] = r.f]
                   /\ held' = [held EXCEPT ![h] = @ \ {r.removed}]
                   /\ last' = Call("Delete", NoError)
            /\ UNCHANGED <<drained, run, race>>

\* Two distinct heaps; the result is a new FibHeap object, heaps[Len(heaps)+1].
MergeAction ==
    \E a \in Heaps, b \in Heaps :
        /\ a # b
        /\ Len(heaps) < MaxHeaps
        /\ \E r \in {MergeFibHeap(mem, heaps[a], heaps[b])} :
               /\ mem' = r.mem
               /\ heaps' = Append([heaps EXCEPT ![a] = r.one, ![b] = r.two],
                                  r.result)
               /\ held' = Append([held EXCEPT ![a] = {}, ![b] = {}],
                                 held[a] \cup held[b])
               /\ last' = Call("Merge", NoError)
        /\ UNCHANGED <<drained, run, race>>

Next ==
    \/ EnqueueAction
    \/ DequeueMinAction
    \/ DecreaseKeyAction
    \/ DeleteAction
    \/ MergeAction

Spec == Init /\ [][Next]_vars

\* -------------------------------------------------------------- drain ---
\* Example_fHeap: one heap is filled by Enqueue alone, then emptied by
\* DequeueMin alone, until a call returns nil.

InitDrain ==
    /\ mem = <<>>
    /\ heaps = <<EmptyHeap>>
    /\ held = <<{}>>
    /\ last = Call("none", NoError)
    /\ drained = <<>>
    /\ run = NoRun
    /\ race = NoRace

FillAction ==
    \E p \in DrainPriorities :
        /\ drained = <<>>
        /\ Len(mem) < MaxFill
        /\ \E r \in {Enqueue(mem, heaps[1], p)} :
               /\ mem' = r.mem
               /\ heaps' = [heaps EXCEPT ![1] = r.f]
               /\ held' = [held EXCEPT ![1] = @ \cup {r.ret}]
               /\ last' = Call("Enqueue", NoError)
        /\ UNCHANGED <<drained, run, race>>

\* x := h.DequeueMin(); the loop ends at the first nil.
DrainAction ==
    /\ IF drained = <<>> THEN TRUE ELSE drained[Len(drained)].e # Nil
    /\ \E r \in {DequeueMin(mem, heaps[1])} :
           /\ mem' = Release(r.mem, r.ret)
           /\ heaps' = [heaps EXCEPT ![1] = r.f]
           /\ held' = [held EXCEPT ![1] = @ \ {r.ret}]
           /\ last' = Call("DequeueMin", NoError)
           /\ drained' = Append(drained,
                  [e |-> r.ret,
                   Priority |-> IF r.ret = Nil THEN 0
                                ELSE r.mem[r.ret].Priority])
    /\ UNCHANGED <<run, race>>

NextDrain == FillAction \/ DrainAction

SpecDrain == InitDrain /\ [][NextDrain]_vars

\* --------------------------------------------------------------- deep ---
\* A program with one heap that enqueues MaxDeepFill entries of priority 0,
\* calls DequeueMin, and then calls DecreaseKey, Delete and DequeueMin on
\* the tree that the consolidation has built.

\* The root ring of heap f, as the loop that fills toVisit collects it.
RootsOf(m, f) ==
    IF f.min = Nil THEN {}
    ELSE {collectRoots(m, f.min, <<>>)[i] :
              i \in 1..Len(collectRoots(m, f.min, <<>>))}

\* The heap has been filled and the first DequeueMin has returned.
DeepBuilt ==
    /\ Len(mem) = MaxDeepFill
    /\ HeapLen(heaps[1]) < MaxDeepFill

InitDeep ==
    /\ mem = <<>>
    /\ heaps = <<EmptyHeap>>
    /\ held = <<{}>>
    /\ last = Call("none", NoError)
    /\ drained = <<>>
    /\ run = NoRun
    /\ race = NoRace

DeepFillAction ==
    /\ Len(mem) < MaxDeepFill
    /\ HeapLen(heaps[1]) = Len(mem)
    /\ \E r \in {Enqueue(mem, heaps[1], 0)} :
           /\ mem' = r.mem
           /\ heaps' = [heaps EXCEPT ![1] = r.f]
           /\ held' = [held EXCEPT ![1] = @ \cup {r.ret}]
           /\ last' = Call("Enqueue", NoError)
    /\ UNCHANGED <<drained, run, race>>

DeepDequeueMinAction ==
    /\ Len(mem) = MaxDeepFill
    /\ HeapLen(heaps[1]) > MaxDeepFill - MaxDeepRemovals
    /\ \E r \in {DequeueMin(mem, heaps[1])} :
           /\ mem' = Release(r.mem, r.ret)
           /\ heaps' = [heaps EXCEPT ![1] = r.f]
           /\ held' = [held EXCEPT ![1] = @ \ {r.ret}]
           /\ last' = Call("DequeueMin", NoError)
    /\ UNCHANGED <<drained, run, race>>

DeepDecreaseKeyAction ==
    /\ DeepBuilt
    /\ Cardinality(RootsOf(mem, heaps[1])) < MaxDeepRoots
    /\ \E e \in held[1] :
           \E r \in {DecreaseKey(mem, heaps[1], e, 0)} :
               /\ mem' = r.mem
               /\ heaps' = [heaps EXCEPT ![1] = r.f]
               /\ last' = Call("DecreaseKey", r.err)
    /\ UNCHANGED <<held, drained, run, race>>

DeepDeleteAction ==
    /\ DeepBuilt
    /\ HeapLen(heaps[1]) > MaxDeepFill - MaxDeepRemovals
    /\ \E e \in held[1] :
           \E r \in {Delete(mem, heaps[1], e)} :
               /\ mem' = Release(r.mem, r.removed)
               /\ heaps' = [heaps EXCEPT ![1] = r.f]
               /\ held' = [held EXCEPT ![1] = @ \ {r.removed}]
               /\ last' = Call("Delete", NoError)
    /\ UNCHANGED <<drained, run, race>>

NextDeep ==
    \/ DeepFillAction
    \/ DeepDequeueMinAction
    \/ DeepDecreaseKeyAction
    \/ DeepDeleteAction

SpecDeep == InitDeep /\ [][NextDeep]_vars

\* -------------------------------------------------------------- steps ---
\* The program of SpecDeep with every call of DequeueMin, DecreaseKey and
\* Delete executed one loop pass (or one call of cutNode) at a time: run.pc
\* is the loop the call is in, and the other fields of run are its locals.
\* m0 and f0 are the memory and the heap the call started from; passes,
\* links and recursions count the passes of the loop that clears parents,
\* the links of the consolidation and the recursive calls of cutNode.

\* h.DequeueMin()
BeginDequeueMin ==
    /\ run.pc = "idle"
    /\ Len(mem) = MaxDeepFill
    /\ HeapLen(heaps[1]) >= MaxDeepFill - 1
    /\ run' = [NoRun EXCEPT !.pc = "dequeue", !.op = "DequeueMin",
                            !.m0 = mem, !.f0 = heaps[1]]
    /\ UNCHANGED <<mem, heaps, held, last, drained, race>>

\* h.DecreaseKey(e, 0)
BeginDecreaseKey ==
    /\ run.pc = "idle"
    /\ Len(mem) = MaxDeepFill
    /\ HeapLen(heaps[1]) = MaxDeepFill - 1
    /\ Cardinality(RootsOf(mem, heaps[1])) < MaxDeepRoots
    /\ \E e \in held[1] :
           run' = [NoRun EXCEPT !.pc = "decrease", !.op = "DecreaseKey",
                                !.e = e, !.m0 = mem, !.f0 = heaps[1]]
    /\ UNCHANGED <<mem, heaps, held, last, drained, race>>

\* h.Delete(e)
BeginDelete ==
    /\ run.pc = "idle"
    /\ Len(mem) = MaxDeepFill
    /\ HeapLen(heaps[1]) = MaxDeepFill - 1
    /\ \E e \in held[1] :
           run' = [NoRun EXCEPT !.pc = "decrease", !.op = "Delete",
                                !.e = e, !.m0 = mem, !.f0 = heaps[1]]
    /\ UNCHANGED <<mem, heaps, held, last, drained, race>>

\* DequeueMin up to the loop that clears parents: f.size -= 1, minElem :=
\* f.min, and the unlinking of f.min from the root ring.
DequeueStep ==
    /\ run.pc = "dequeue"
    /\ HeapLen(heaps[1]) # 0
    /\ \E u \in {unlinkMin(mem, heaps[1].min)} :
           /\ mem' = u.mem
           /\ heaps' = [heaps EXCEPT ![1] = [min  |-> u.min,
                                             size |-> heaps[1].size - 1]]
           /\ run' = [run EXCEPT
                  !.minElem = heaps[1].min,
                  !.curr = u.mem[heaps[1].min].child,
                  !.pc = IF u.mem[heaps[1].min].child # Nil
                         THEN "clear" ELSE "splice"]
    /\ UNCHANGED <<held, last, drained, race>>

\* One pass of the loop that clears parents: curr.parent = nil;
\* curr = curr.next.
\* clearPass as it would be without curr = curr.next.
clearPass_Stays(m, curr) ==
    [mem |-> [m EXCEPT ![curr].parent = Nil], curr |-> curr]

clearPass(m, curr) ==
    [mem |-> [m EXCEPT ![curr].parent = Nil], curr |-> m[curr].next]

\* A pass of the loop that clears parents, and its test
\* curr == minElem.child.
ClearStep ==
    /\ run.pc = "clear"
    /\ \E c \in {clearPass(mem, run.curr)} :
           /\ mem' = c.mem
           /\ run' = [run EXCEPT
                  !.curr = c.curr,
                  !.passes = @ + 1,
                  !.pc = IF c.curr = c.mem[run.minElem].child
                         THEN "splice" ELSE "clear"]
    /\ UNCHANGED <<heaps, held, last, drained, race>>

\* f.min = mergeLists(f.min, minElem.child); if f.min == nil { return }
SpliceStep ==
    /\ run.pc = "splice"
    /\ \E ml \in {mergeLists(mem, heaps[1].min, mem[run.minElem].child)} :
           /\ mem' = ml.mem
           /\ heaps' = [heaps EXCEPT ![1].min = ml.ret]
           /\ run' = [run EXCEPT
                  !.curr = ml.ret,
                  !.toVisit = <<>>,
                  !.pc = IF ml.ret = Nil THEN "return" ELSE "collect"]
    /\ UNCHANGED <<held, last, drained, race>>

\* The test of the loop that fills toVisit and, if it holds, a pass of it;
\* if not, the consolidation starts at toVisit[0] with an empty treeTable.
CollectStep ==
    /\ run.pc = "collect"
    /\ IF Len(run.toVisit) = 0 \/ run.toVisit[1] # run.curr
       THEN run' = [run EXCEPT !.toVisit = Append(@, run.curr),
                               !.curr = mem[run.curr].next]
       ELSE run' = [run EXCEPT !.pc = "merge", !.i = 1,
                               !.curr = run.toVisit[1],
                               !.treeTable = <<>>]
    /\ UNCHANGED <<mem, heaps, held, last, drained, race>>

\* One pass of the inner for { ... } of the consolidation on curr: either
\* the slot of curr's degree is free, curr takes it, f.min is updated and
\* the outer loop goes to the next entry of toVisit (or ends), or curr is
\* linked with the tree in the slot and the loop goes on with the winner.
MergeStep ==
    /\ run.pc = "merge"
    /\ \E tt \in {growTable(run.treeTable, mem[run.curr].degree)} :
       \E d \in {mem[run.curr].degree + 1} :
           IF tt[d] = Nil
           THEN /\ heaps' = [heaps EXCEPT ![1].min =
                                 IF mem[run.curr].Priority
                                        <= mem[heaps[1].min].Priority
                                 THEN run.curr ELSE @]
                /\ run' = IF run.i = Len(run.toVisit)
                          THEN [run EXCEPT
                                   !.treeTable = [tt EXCEPT ![d] = run.curr],
                                   !.pc = "return"]
                          ELSE [run EXCEPT
                                   !.treeTable = [tt EXCEPT ![d] = run.curr],
                                   !.i = @ + 1,
                                   !.curr = run.toVisit[run.i + 1]]
                /\ UNCHANGED mem
           ELSE \E other \in {tt[d]} :
                \E min \in {IF mem[other].Priority < mem[run.curr].Priority
                            THEN other ELSE run.curr} :
                \E max \in {IF mem[other].Priority < mem[run.curr].Priority
                            THEN run.curr ELSE other} :
                    /\ mem' = linkRoots(mem, min, max)
                    /\ run' = [run EXCEPT
                                  !.treeTable = [tt EXCEPT ![d] = Nil],
                                  !.curr = min,
                                  !.links = @ + 1]
                    /\ UNCHANGED heaps
    /\ UNCHANGED <<held, last, drained, race>>

\* decreaseKeyUnchecked up to the call of cutNode: e.Priority = priority
\* and the test of e.parent; the priority is 0 for DecreaseKey and
\* -infinity for Delete.
DecreaseStep ==
    /\ run.pc = "decrease"
    /\ \E p \in {IF run.op = "Delete" THEN NegInf ELSE 0} :
           /\ p <= mem[run.e].Priority \/ run.op = "Delete"
           /\ mem' = [mem EXCEPT ![run.e].Priority = p]
           /\ run' = IF /\ mem[run.e].parent # Nil
                        /\ p <= mem[mem[run.e].parent].Priority
                     THEN [run EXCEPT !.pc = "cut", !.stack = <<run.e>>]
                     ELSE [run EXCEPT !.pc = "setmin"]
    /\ UNCHANGED <<heaps, held, last, drained, race>>

\* cutNode from the rewiring of e's siblings to the splice of e into the
\* root ring, for an e that has a parent.
cutOff(m, f, e) ==
    Do([p  \in {m[e].parent} |->
    Do([m2 \in {unlinkSiblings(m, e)} |->
    Do([m3 \in {repointChild(m2, e, p)} |->
    Do([m4 \in {[m3 EXCEPT ![p].degree = m3[p].degree - 1]} |->
    Do([m5 \in {[m4 EXCEPT ![e].prev = e]} |->
    Do([m6 \in {[m5 EXCEPT ![e].next = e]} |->
    Do([ml \in {mergeLists(m6, f.min, e)} |->
        [mem |-> ml.mem, f |-> [f EXCEPT !.min = ml.ret]]
    ])])])])])])])

\* The stack of the calls of cutNode after the return of the innermost.
pop(stack) == SubSeq(stack, 1, Len(stack) - 1)

\* One call of cutNode, on the entry on top of the stack, up to its
\* recursive call or, if it makes none, up to the marking of the parent: a
\* call on an entry without parent returns at once.
CutStep ==
    /\ run.pc = "cut"
    /\ \E e \in {run.stack[Len(run.stack)]} :
       \E m1 \in {[mem EXCEPT ![e].marked = FALSE]} :
           IF m1[e].parent = Nil
           THEN /\ mem' = m1
                /\ run' = [run EXCEPT
                       !.stack = pop(@),
                       !.pc = IF pop(run.stack) = <<>>
                              THEN "setmin" ELSE "unwind"]
                /\ UNCHANGED heaps
           ELSE \E c \in {cutOff(m1, heaps[1], e)} :
                    /\ heaps' = [heaps EXCEPT ![1] = c.f]
                    /\ IF c.mem[m1[e].parent].marked
                       THEN /\ mem' = c.mem
                            /\ run' = [run EXCEPT
                                   !.stack = Append(@, m1[e].parent),
                                   !.recursions = @ + 1]
                       ELSE /\ mem' = [c.mem EXCEPT
                                          ![m1[e].parent].marked = TRUE]
                            /\ run' = [run EXCEPT !.pc = "unwind"]
    /\ UNCHANGED <<held, last, drained, race>>

\* The end of a call of cutNode that had a parent to cut from:
\* e.parent = nil, and the return to the calling cutNode, if any.
UnwindStep ==
    /\ run.pc = "unwind"
    /\ \E e \in {run.stack[Len(run.stack)]} :
           /\ mem' = [mem EXCEPT ![e].parent = Nil]
           /\ run' = [run EXCEPT
                  !.stack = pop(@),
                  !.pc = IF pop(run.stack) = <<>>
                         THEN "setmin" ELSE "unwind"]
    /\ UNCHANGED <<heaps, held, last, drained, race>>

\* The end of decreaseKeyUnchecked: if e.Priority <= f.min.Priority
\* { f.min = e }; Delete goes on with DequeueMin.
SetMinStep ==
    /\ run.pc = "setmin"
    /\ heaps' = [heaps EXCEPT ![1].min =
                     IF mem[run.e].Priority <= mem[heaps[1].min].Priority
                     THEN run.e ELSE @]
    /\ run' = [run EXCEPT !.pc = IF run.op = "Delete"
                                 THEN "dequeue" ELSE "return"]
    /\ UNCHANGED <<mem, held, last, drained, race>>

\* The call returns; the caller of DequeueMin or Delete drops the entry
\* that has left the heap.
ReturnStep ==
    /\ run.pc = "return"
    /\ mem' = Release(mem, run.minElem)
    /\ held' = [held EXCEPT ![1] = @ \ {run.minElem}]
    /\ last' = Call(run.op, NoError)
    /\ run' = NoRun
    /\ UNCHANGED <<heaps, drained, race>>

\* The filling of the heap, while no call is in progress.
StepFillAction ==
    /\ run.pc = "idle"
    /\ DeepFillAction

\* A call in progress makes its next step.
Step ==
    \/ DequeueStep
    \/ ClearStep
    \/ SpliceStep
    \/ CollectStep
    \/ MergeStep
    \/ DecreaseStep
    \/ CutStep
    \/ UnwindStep
    \/ SetMinStep
    \/ ReturnStep

NextSteps ==
    \/ StepFillAction
    \/ BeginDequeueMin
    \/ BeginDecreaseKey
    \/ BeginDelete
    \/ Step

\* The thread that makes a call goes on executing it.
SpecSteps == InitDeep /\ [][NextSteps]_vars /\ WF_vars(Step)

\* --------------------------------------------------------------- race ---
\* A program whose threads share one heap: after at most MaxRacePrefill
\* calls of Enqueue by one thread, each of MaxRaceThreads threads calls
\* Enqueue or DequeueMin once.  Enqueue is executed one statement at a time
\* (f.size += 1 as a read and a write), so that the statements of two calls
\* interleave; race.thr[t] holds the position and the locals of thread t.
\* If race.useLock holds, the threads take one lock, race.lock, around each
\* call.

Threads == 1..MaxRaceThreads

IdleThread ==
    [pc |-> "idle", op |-> "none", two |-> Nil, one |-> Nil,
     oneNext |-> Nil, ret |-> Nil, size |-> 0]

InitRace ==
    /\ mem = <<>>
    /\ heaps = <<EmptyHeap>>
    /\ held = <<{}>>
    /\ last = Call("none", NoError)
    /\ drained = <<>>
    /\ run = NoRun
    /\ race \in {[useLock |-> b, lock |-> 0,
                  thr |-> [t \in Threads |-> IdleThread]] : b \in BOOLEAN}

\* Thread t goes to position pc with locals l.
Goto(t, l, pc) == [race EXCEPT !.thr[t] = [l EXCEPT !.pc = pc]]

\* Thread t may start a call: it needs the lock, if the threads use one.
Enter(r, t) == ~r.useLock \/ r.lock = 0

\* The lock after thread t has started a call, and after it has returned.
Acquire(r, t) == IF r.useLock THEN t ELSE r.lock

Free(r, t) == IF r.useLock THEN 0 ELSE r.lock

\* The root ring can be walked: following next from f.min comes back to
\* f.min, and prev is the inverse of next on the way.
RingWhole(m, f) ==
    \/ f.size = 0
    \/ /\ f.min # Nil
       /\ \A w \in {collectRootsWithin(m, f.min, <<>>, Len(m))} :
              /\ w.back
              /\ \A i \in 1..Len(w.seen) :
                     /\ m[m[w.seen[i]].next].prev = w.seen[i]
                     /\ m[m[w.seen[i]].prev].next = w.seen[i]

\* The entries enqueued before the threads start.
RaceFillAction ==
    /\ \A t \in Threads : race.thr[t].pc = "idle"
    /\ Len(mem) < MaxRacePrefill
    /\ \E r \in {Enqueue(mem, heaps[1], 0)} :
           /\ mem' = r.mem
           /\ heaps' = [heaps EXCEPT ![1] = r.f]
           /\ held' = [held EXCEPT ![1] = @ \cup {r.ret}]
           /\ last' = Call("Enqueue", NoError)
    /\ UNCHANGED <<drained, run, race>>

\* Thread t calls h.Enqueue(element, 0) or h.DequeueMin().
RaceCall(t) ==
    /\ race.thr[t].pc = "idle"
    /\ Enter(race, t)
    /\ \E op \in {"Enqueue", "DequeueMin"} :
           race' = [race EXCEPT
                       !.lock = Acquire(race, t),
                       !.thr[t] = [IdleThread EXCEPT
                                      !.op = op,
                                      !.pc = IF op = "Enqueue"
                                             THEN "new" ELSE "dequeue"]]
    /\ UNCHANGED <<mem, heaps, held, last, drained, run>>

\* result := newEntry(element, priority)
RaceNewEntry(t) ==
    /\ race.thr[t].pc = "new"
    /\ mem' = Append(mem, newEntry(Len(mem) + 1, 0))
    /\ race' = Goto(t, [race.thr[t] EXCEPT !.two = Len(mem) + 1], "readmin")
    /\ UNCHANGED <<heaps, held, last, drained, run>>

\* mergeLists(f.min, result): the read of f.min, and the tests for nil.
RaceReadMin(t) ==
    /\ race.thr[t].pc = "readmin"
    /\ race' = IF heaps[1].min = Nil
               THEN Goto(t, [race.thr[t] EXCEPT !.one = Nil,
                                                !.ret = race.thr[t].two],
                         "writemin")
               ELSE Goto(t, [race.thr[t] EXCEPT !.one = heaps[1].min],
                         "oneNext")
    /\ UNCHANGED <<mem, heaps, held, last, drained, run>>

\* oneNext := one.next
RaceOneNext(t) ==
    /\ race.thr[t].pc = "oneNext"
    /\ race' = Goto(t, [race.thr[t] EXCEPT
                           !.oneNext = mem[race.thr[t].one].next],
                    "one.next")
    /\ UNCHANGED <<mem, heaps, held, last, drained, run>>

\* one.next = two.next
RaceSetOneNext(t) ==
    /\ race.thr[t].pc = "one.next"
    /\ mem' = [mem EXCEPT ![race.thr[t].one].next = mem[race.thr[t].two].next]
    /\ race' = Goto(t, race.thr[t], "one.next.prev")
    /\ UNCHANGED <<heaps, held, last, drained, run>>

\* one.next.prev = one
RaceSetOneNextPrev(t) ==
    /\ race.thr[t].pc = "one.next.prev"
    /\ mem' = [mem EXCEPT ![mem[race.thr[t].one].next].prev = race.thr[t].one]
    /\ race' = Goto(t, race.thr[t], "two.next")
    /\ UNCHANGED <<heaps, held, last, drained, run>>

\* two.next = oneNext
RaceSetTwoNext(t) ==
    /\ race.thr[t].pc = "two.next"
    /\ mem' = [mem EXCEPT ![race.thr[t].two].next = race.thr[t].oneNext]
    /\ race' = Goto(t, race.thr[t], "two.next.prev")
    /\ UNCHANGED <<heaps, held, last, drained, run>>

\* two.next.prev = two
RaceSetTwoNextPrev(t) ==
    /\ race.thr[t].pc = "two.next.prev"
    /\ mem' = [mem EXCEPT ![mem[race.thr[t].two].next].prev = race.thr[t].two]
    /\ race' = Goto(t, race.thr[t], "compare")
    /\ UNCHANGED <<heaps, held, last, drained, run>>

\* if one.Priority < two.Priority { return one }; return two
RaceCompare(t) ==
    /\ race.thr[t].pc = "compare"
    /\ race' = Goto(t, [race.thr[t] EXCEPT !.ret =
                           IF mem[race.thr[t].one].Priority
                                  < mem[race.thr[t].two].Priority
                           THEN race.thr[t].one ELSE race.thr[t].two],
                    "writemin")
    /\ UNCHANGED <<mem, heaps, held, last, drained, run>>

\* f.min = (what mergeLists returned)
RaceWriteMin(t) ==
    /\ race.thr[t].pc = "writemin"
    /\ heaps' = [heaps EXCEPT ![1].min = race.thr[t].ret]
    /\ race' = Goto(t, race.thr[t], "readsize")
    /\ UNCHANGED <<mem, held, last, drained, run>>

\* f.size += 1, the read
RaceReadSize(t) ==
    /\ race.thr[t].pc = "readsize"
    /\ race' = Goto(t, [race.thr[t] EXCEPT !.size = heaps[1].size],
                    "writesize")
    /\ UNCHANGED <<mem, heaps, held, last, drained, run>>

\* f.size += 1, the write of the sum.
\* storeSize as it would be if it wrote back the size it had read.
storeSize_NoCount(f, size) == [f EXCEPT !.size = size]

storeSize(f, size) == [f EXCEPT !.size = size + 1]

RaceWriteSize(t) ==
    /\ race.thr[t].pc = "writesize"
    /\ heaps' = [heaps EXCEPT ![1] = storeSize(@, race.thr[t].size)]
    /\ race' = Goto(t, race.thr[t], "return")
    /\ UNCHANGED <<mem, held, last, drained, run>>

\* return result: the caller has the handle of an entry of the heap.
RaceEnqueueReturn(t) ==
    /\ race.thr[t].pc = "return"
    /\ held' = [held EXCEPT ![1] = @ \cup {race.thr[t].two}]
    /\ last' = Call("Enqueue", NoError)
    /\ race' = [Goto(t, race.thr[t], "done") EXCEPT !.lock = Free(race, t)]
    /\ UNCHANGED <<mem, heaps, drained, run>>

\* DequeueMin, as one step, and only in a state in which its walk of the
\* root ring comes back to its start (on a ring that another thread is
\* splicing, the loop that fills toVisit need not end).  The entry that is
\* returned keeps its fields: another thread may still refer to it.
RaceDequeueMin(t) ==
    /\ race.thr[t].pc = "dequeue"
    /\ RingWhole(mem, heaps[1])
    /\ \E r \in {DequeueMin(mem, heaps[1])} :
           /\ mem' = r.mem
           /\ heaps' = [heaps EXCEPT ![1] = r.f]
           /\ held' = [held EXCEPT ![1] = @ \ {r.ret}]
           /\ last' = Call("DequeueMin", NoError)
    /\ race' = [Goto(t, race.thr[t], "done") EXCEPT !.lock = Free(race, t)]
    /\ UNCHANGED <<drained, run>>

NextRace ==
    \/ RaceFillAction
    \/ \E t \in Threads :
           \/ RaceCall(t)
           \/ RaceNewEntry(t)
           \/ RaceReadMin(t)
           \/ RaceOneNext(t)
           \/ RaceSetOneNext(t)
           \/ RaceSetOneNextPrev(t)
           \/ RaceSetTwoNext(t)
           \/ RaceSetTwoNextPrev(t)
           \/ RaceCompare(t)
           \/ RaceWriteMin(t)
           \/ RaceReadSize(t)
           \/ RaceWriteSize(t)
           \/ RaceEnqueueReturn(t)
           \/ RaceDequeueMin(t)

SpecRace == InitRace /\ [][NextRace]_vars

\* ------------------------------------------------- the heap's entries ---

\* The entries reachable from those of S through next and child links.
RECURSIVE Closure(_, _)
Closure(m, S) ==
    LET T == S \cup (({m[x].next : x \in S} \cup {m[x].child : x \in S})
                     \ {Nil})
    IN  IF T = S THEN S ELSE Closure(m, T)

\* The entries reachable from the root ring of heap f.
Entries(m, f) == IF f.min = Nil THEN {} ELSE Closure(m, {f.min})

\* The ring of e: the entries reachable from e through next links.
RECURSIVE Ring(_, _)
Ring(m, S) ==
    LET T == S \cup ({m[x].next : x \in S} \ {Nil})
    IN  IF T = S THEN S ELSE Ring(m, T)

\* The entries met when following next from first, first excluded, until
\* first comes again (or nil is met, or more steps are made than there are
\* entries); curr is the entry the walk stands on.
RECURSIVE NextWalk(_, _, _, _)
NextWalk(m, first, curr, seen) ==
    IF Len(seen) > Len(m) THEN seen
    ELSE IF m[curr].next = first THEN seen
    ELSE IF m[curr].next = Nil THEN Append(seen, Nil)
    ELSE NextWalk(m, first, m[curr].next, Append(seen, m[curr].next))

\* The entries of S that have the parent of e: e and its siblings.
Siblings(m, S, e) == {x \in S : m[x].parent = m[e].parent}

\* The root ring of heap f.
Roots(m, f) == IF f.min = Nil THEN {} ELSE Ring(m, {f.min})

\* The entries that the next, prev, parent and child of e refer to.
Links(m, e) == {m[e].next, m[e].prev, m[e].parent, m[e].child} \ {Nil}

\* Every entry allocated so far, and those no heap holds any more.
Allocated == 1..Len(mem)

Gone == {x \in Allocated : \A h \in Heaps : x \notin held[h]}

\* What DequeueMin returns, call after call, until it returns nil: the
\* entries and the priorities they are returned with.
RECURSIVE DrainAll(_, _)
DrainAll(m, f) ==
    LET r == DequeueMin(m, f)
    IN  IF r.ret = Nil THEN <<>>
        ELSE <<[e |-> r.ret, Priority |-> r.mem[r.ret].Priority]>>
             \o DrainAll(r.mem, r.f)

NonDecreasing(out) ==
    \A i \in 1..Len(out), j \in 1..Len(out) :
        i < j => out[i].Priority <= out[j].Priority

Returned(out) == {out[i].e : i \in 1..Len(out)}

\* ----------------------------------------------------------------- C1 ---
\* C1: in every reachable state and for every non-empty heap, Min() is an
\* entry of the heap whose priority is at most that of every entry the heap
\* holds, and DequeueMin() called in that state returns that same entry.
C1_MinIsSmallest ==
    \A h \in Heaps :
        held[h] # {} =>
            /\ Min(heaps[h]) \in held[h]
            /\ \A x \in held[h] :
                   mem[Min(heaps[h])].Priority <= mem[x].Priority
            /\ DequeueMin(mem, heaps[h]).ret = Min(heaps[h])

\* A heap of at least three entries, one of them a child, whose minimum is
\* strictly below another entry, reached by a decrease of a key.
C1_Witness ==
    /\ last.op = "DecreaseKey"
    /\ last.err = NoError
    /\ \E h \in Heaps :
           /\ Cardinality(held[h]) >= 3
           /\ \E x \in held[h] : mem[x].parent # Nil
           /\ \E x \in held[h] :
                  mem[Min(heaps[h])].Priority < mem[x].Priority

\* ----------------------------------------------------------------- C2 ---
\* C2 (SpecDrain): a heap filled by Enqueue alone and then emptied by
\* DequeueMin alone returns an entry at each of its first Len() calls, no
\* entry twice and all of them enqueued ones, in non-decreasing order of
\* priority, and nil at the call after the last entry.
C2_SortedDrain ==
    /\ \A i \in 1..Len(drained) :
           IF i <= Len(mem)
           THEN drained[i].e \in Allocated
           ELSE drained[i].e = Nil
    /\ \A i \in 1..Len(drained), j \in 1..Len(drained) :
           i < j /\ j <= Len(mem) =>
               /\ drained[i].e # drained[j].e
               /\ drained[i].Priority <= drained[j].Priority
    /\ Len(drained) <= Len(mem) + 1
    /\ heaps[1].size = Len(mem) - Cardinality(Returned(drained) \ {Nil})

\* A drain that has run to its end, nil included, over at least four
\* entries, with a duplicated priority and two distinct ones.
C2_Witness ==
    /\ Len(mem) >= 4
    /\ Len(drained) = Len(mem) + 1
    /\ drained[Len(drained)].e = Nil
    /\ \E i \in 1..Len(mem) : drained[i].Priority = drained[i + 1].Priority
    /\ drained[1].Priority < drained[Len(mem)].Priority
    /\ drained[1].e > drained[2].e

\* ----------------------------------------------------------------- C3 ---
\* C3: in every reachable state, Len() of every heap is the number of
\* entries the heap holds, and those are exactly the entries reachable from
\* its root ring through sibling and child links.
C3_LenCountsEntries ==
    \A h \in Heaps :
        /\ HeapLen(heaps[h]) = Cardinality(held[h])
        /\ Entries(mem, heaps[h]) = held[h]

\* After a Delete, a heap that still holds entries at two levels.
C3_Witness ==
    /\ last.op = "Delete"
    /\ \E h \in Heaps :
           /\ HeapLen(heaps[h]) >= 3
           /\ \E x \in held[h] : mem[x].parent # Nil

\* ----------------------------------------------------------------- C4 ---
\* C4: in every reachable state, DecreaseKey(e, p) on an entry e of a heap
\* with p above e's priority returns ErrorExceedsPriority and leaves the
\* whole memory (every priority, link, degree and mark) and the heap (its
\* min pointer and size) as they were.
C4_ExceedsPriorityMutatesNothing ==
    \A h \in Heaps :
        \A e \in held[h], p \in Priorities :
            p > mem[e].Priority =>
                \A r \in {DecreaseKey(mem, heaps[h], e, p)} :
                    /\ r.err = ErrorExceedsPriority
                    /\ r.mem = mem
                    /\ r.f = heaps[h]

\* A DecreaseKey that has just failed, on a heap that has a child entry.
C4_Witness ==
    /\ last.op = "DecreaseKey"
    /\ last.err = ErrorExceedsPriority
    /\ \E h \in Heaps : \E e \in held[h] :
           /\ mem[e].parent # Nil
           /\ mem[e].Priority = NegInf

\* ----------------------------------------------------------------- C5 ---
\* C5: in every reachable state, DecreaseKey(e, p) on an entry e of a heap
\* with p at most e's priority returns no error; the heap then holds the
\* same entries, e with priority p and every other entry with the priority
\* it had; Len() is unchanged; Min() is an entry whose priority is at most
\* every priority so changed; and the DequeueMin calls that follow return
\* all these entries, e with priority p, in non-decreasing order.
C5_DecreaseKeySucceeds ==
    \A h \in Heaps :
        \A e \in held[h], p \in Priorities :
            p <= mem[e].Priority =>
                \A r \in {DecreaseKey(mem, heaps[h], e, p)} :
                    /\ r.err = NoError
                    /\ Entries(r.mem, r.f) = held[h]
                    /\ r.mem[e].Priority = p
                    /\ \A x \in Allocated \ {e} :
                           r.mem[x].Priority = mem[x].Priority
                    /\ HeapLen(r.f) = HeapLen(heaps[h])
                    /\ Min(r.f) \in held[h]
                    /\ \A x \in held[h] :
                           r.mem[Min(r.f)].Priority <= r.mem[x].Priority
                    /\ \A out \in {DrainAll(r.mem, r.f)} :
                           /\ NonDecreasing(out)
                           /\ Returned(out) = held[h]
                           /\ Len(out) = Cardinality(held[h])
                           /\ \A i \in 1..Len(out) :
                                  out[i].Priority = r.mem[out[i].e].Priority

\* A state in which DecreaseKey lowers a grandchild below its parent, to a
\* priority strictly below the heap's minimum, and a DecreaseKey has acted.
C5_Witness ==
    /\ last.op = "DecreaseKey"
    /\ last.err = NoError
    /\ \E h \in Heaps : \E e \in held[h] :
           /\ mem[e].parent # Nil
           /\ mem[mem[e].parent].parent # Nil
           /\ NegInf < mem[mem[e].parent].Priority
           /\ NegInf < mem[Min(heaps[h])].Priority
           /\ DecreaseKey(mem, heaps[h], e, NegInf).f.min = e

\* ----------------------------------------------------------------- C6 ---
\* C6: in every reachable state, Delete(e) on an entry e of a heap takes e
\* out and nothing else: Len() is smaller by one, the heap holds every other
\* entry it held, each with the priority it had, the DequeueMin calls that
\* follow return those entries and never e; and no DequeueMin ever returns
\* an entry that a Delete or a DequeueMin has taken out before.
C6_DeleteRemovesExactlyThat ==
    /\ \A h \in Heaps :
           \A e \in held[h] :
               \A r \in {Delete(mem, heaps[h], e)} :
                   /\ HeapLen(r.f) = HeapLen(heaps[h]) - 1
                   /\ r.removed = e
                   /\ Entries(r.mem, r.f) = held[h] \ {e}
                   /\ \A x \in held[h] \ {e} :
                          r.mem[x].Priority = mem[x].Priority
                   /\ Returned(DrainAll(r.mem, r.f)) = held[h] \ {e}
    /\ \A h \in Heaps : DequeueMin(mem, heaps[h]).ret \notin Gone

\* A Delete has acted and taken an entry out, leaving a heap in which a
\* marked child, beside another entry of priority -infinity, can be deleted.
C6_Witness ==
    /\ last.op = "Delete"
    /\ Gone # {}
    /\ \E h \in Heaps : \E e \in held[h], x \in held[h] :
           /\ mem[e].marked
           /\ mem[e].parent # Nil
           /\ x # e
           /\ mem[x].Priority = NegInf
           /\ Delete(mem, heaps[h], e).removed = e

\* ----------------------------------------------------------------- C7 ---
\* C7: in every reachable state and for any two distinct heaps A and B,
\* empty or not, MergeFibHeap(A, B) returns a heap whose Len() is
\* Len(A) + Len(B), which holds exactly the entries of A and of B with the
\* priorities they had, whose Min() is absent if both are empty and else an
\* entry of least priority among them, and whose DequeueMin calls return
\* all these entries in non-decreasing order of priority.
C7_MergeIsUnion ==
    \A a \in Heaps, b \in Heaps :
        a # b =>
            \A r \in {MergeFibHeap(mem, heaps[a], heaps[b])} :
                /\ HeapLen(r.result) = HeapLen(heaps[a]) + HeapLen(heaps[b])
                /\ Entries(r.mem, r.result) = held[a] \cup held[b]
                /\ \A x \in Allocated : r.mem[x].Priority = mem[x].Priority
                /\ IF held[a] \cup held[b] = {}
                   THEN Min(r.result) = Nil
                   ELSE /\ Min(r.result) \in held[a] \cup held[b]
                        /\ \A x \in held[a] \cup held[b] :
                               r.mem[Min(r.result)].Priority
                                   <= r.mem[x].Priority
                /\ \A out \in {DrainAll(r.mem, r.result)} :
                       /\ NonDecreasing(out)
                       /\ Returned(out) = held[a] \cup held[b]
                       /\ Len(out) = Cardinality(held[a] \cup held[b])

\* A merge has acted on two non-empty heaps, one of them holding a tree and
\* the other the entry of least priority.
C7_Witness ==
    /\ last.op = "Merge"
    /\ Cardinality(held[Len(heaps)]) >= 3
    /\ \E x \in held[Len(heaps)], y \in held[Len(heaps)] :
           /\ mem[x].parent # Nil
           /\ mem[y].Priority < mem[mem[x].parent].Priority

\* ----------------------------------------------------------------- C8 ---
\* C8: in every reachable state and for any two distinct heaps A and B,
\* after MergeFibHeap(A, B) each of A and B has Len() 0 and no Min(), and
\* its DequeueMin() returns nil; and an Enqueue into A or into B afterwards
\* changes no entry of the merged heap and leaves it holding the same
\* entries.
C8_MergeEmptiesInputs ==
    \A a \in Heaps, b \in Heaps :
        a # b =>
            \A r \in {MergeFibHeap(mem, heaps[a], heaps[b])} :
                \A in \in {r.one, r.two} :
                    /\ HeapLen(in) = 0
                    /\ Min(in) = Nil
                    /\ DequeueMin(r.mem, in).ret = Nil
                    /\ \A p \in Priorities :
                           \A q \in {Enqueue(r.mem, in, p)} :
                               /\ \A x \in Allocated : q.mem[x] = r.mem[x]
                               /\ Entries(q.mem, r.result)
                                      = held[a] \cup held[b]
                               /\ Entries(q.mem, q.f) = {q.ret}

\* After a merge of two non-empty heaps, an Enqueue into one of the inputs
\* has acted.
C8_Witness ==
    /\ last.op = "Enqueue"
    /\ Len(heaps) = 3
    /\ Cardinality(held[3]) >= 2
    /\ held[1] \cup held[2] # {}

\* ----------------------------------------------------------------- C9 ---
\* C9: in every reachable state, DequeueMin() on a heap whose Len() is 0
\* returns nil and leaves the memory and the heap (Len() 0, Min() absent)
\* as they were, so that any number of such calls does.
C9_DequeueMinOnEmpty ==
    \A h \in Heaps :
        HeapLen(heaps[h]) = 0 =>
            \A r \in {DequeueMin(mem, heaps[h])} :
                /\ r.ret = Nil
                /\ r.mem = mem
                /\ r.f = heaps[h]
                /\ HeapLen(r.f) = 0
                /\ Min(r.f) = Nil

\* DequeueMin has acted on a heap that was empty (nothing was taken out of
\* it), beside a heap that holds entries.
C9_Witness ==
    /\ last.op = "DequeueMin"
    /\ Gone = {}
    /\ \E h \in Heaps : held[h] = {}
    /\ \E h \in Heaps : held[h] # {}

\* ---------------------------------------------------------------- C10 ---
\* C10: in every reachable state with room for another entry,
\* Enqueue(element, priority) on a heap returns an entry that did not exist
\* before, that the heap then holds, with the given priority; Len() grows
\* by one; the heap holds the entries it held and the new one; every entry
\* that existed keeps its priority, parent, child, degree and mark; and the
\* only entries whose next or prev changes are roots of that heap.
C10_EnqueueAddsOneEntry ==
    \A h \in Heaps, p \in Priorities :
        Len(mem) < Capacity =>
            \A r \in {Enqueue(mem, heaps[h], p)} :
                /\ r.ret \notin Allocated
                /\ r.ret \in Entries(r.mem, r.f)
                /\ r.mem[r.ret].Priority = p
                /\ HeapLen(r.f) = HeapLen(heaps[h]) + 1
                /\ Entries(r.mem, r.f) = held[h] \cup {r.ret}
                /\ Min(r.f) \in {Min(heaps[h]), r.ret}
                /\ \A x \in Allocated :
                       /\ r.mem[x].Priority = mem[x].Priority
                       /\ r.mem[x].parent = mem[x].parent
                       /\ r.mem[x].child = mem[x].child
                       /\ r.mem[x].degree = mem[x].degree
                       /\ r.mem[x].marked = mem[x].marked
                       /\ r.mem[x].next # mem[x].next
                              \/ r.mem[x].prev # mem[x].prev
                          => x \in held[h] /\ mem[x].parent = Nil

\* An Enqueue has acted on a heap that holds a tree: the entry allocated
\* last is a root of a heap in which another entry is a child.
C10_Witness ==
    /\ last.op = "Enqueue"
    /\ \E h \in Heaps :
           /\ Len(mem) \in held[h]
           /\ mem[Len(mem)].parent = Nil
           /\ mem[Len(mem)].next # Len(mem)
           /\ Cardinality(held[h]) >= 3
           /\ \E x \in held[h] : mem[x].parent # Nil

\* ---------------------------------------------------------------- C11 ---
\* C11: in every reachable state and for every heap, Min() is absent
\* exactly when Len() is 0; and whenever Len() is not 0 the min pointer
\* DequeueMin reads is an allocated entry that the heap holds, which the
\* call returns.
C11_MinAbsentIffEmpty ==
    \A h \in Heaps :
        /\ (Min(heaps[h]) = Nil) <=> (HeapLen(heaps[h]) = 0)
        /\ HeapLen(heaps[h]) # 0 =>
               /\ heaps[h].min \in Allocated
               /\ heaps[h].min \in held[h]
               /\ DequeueMin(mem, heaps[h]).ret # Nil

\* A heap that held at least two entries, emptied by a Delete or a
\* DequeueMin that took its last entry out.
C11_Witness ==
    /\ last.op \in {"Delete", "DequeueMin"}
    /\ Len(heaps) = 1
    /\ Len(mem) >= 2
    /\ Gone = Allocated
    /\ HeapLen(heaps[1]) = 0
    /\ Min(heaps[1]) = Nil

\* ---------------------------------------------------------------- C12 ---
\* C12 as stated: in every reachable state, the entry that DequeueMin()
\* returns, and the entry e that Delete(e) removes, has afterwards no next,
\* prev, parent or child that refers to an entry the heap still holds.
C12_LinksInvalidated ==
    \A h \in Heaps :
        /\ \A r \in {DequeueMin(mem, heaps[h])} :
               r.ret # Nil =>
                   Links(r.mem, r.ret) \cap Entries(r.mem, r.f) = {}
        /\ \A e \in held[h] :
               \A r \in {Delete(mem, heaps[h], e)} :
                   Links(r.mem, e) \cap Entries(r.mem, r.f) = {}

\* C12 as amended: in every reachable state, after DequeueMin() has
\* returned an entry, or Delete(e) has removed e, the heap has let go of
\* it: it is not among the heap's entries, the min pointer and the next,
\* prev, parent and child of every entry the heap still holds do not refer
\* to it, and its parent is absent; its own next, prev and child are not
\* cleared (DequeueMin leaves them as they were, Delete leaves child as it
\* was).
C12_HeapRelinquishes ==
    \A h \in Heaps :
        /\ \A r \in {DequeueMin(mem, heaps[h])} :
               r.ret # Nil =>
                   /\ r.ret \notin Entries(r.mem, r.f)
                   /\ Min(r.f) # r.ret
                   /\ \A x \in held[h] \ {r.ret} :
                          r.ret \notin Links(r.mem, x)
                   /\ r.mem[r.ret].parent = Nil
                   /\ r.mem[r.ret].next = mem[r.ret].next
                   /\ r.mem[r.ret].prev = mem[r.ret].prev
                   /\ r.mem[r.ret].child = mem[r.ret].child
        /\ \A e \in held[h] :
               \A r \in {Delete(mem, heaps[h], e)} :
                   /\ e \notin Entries(r.mem, r.f)
                   /\ Min(r.f) # e
                   /\ \A x \in held[h] \ {e} : e \notin Links(r.mem, x)
                   /\ r.mem[e].parent = Nil
                   /\ r.mem[e].child = mem[e].child

\* After a removal, a heap whose minimum has both a sibling and a child:
\* the entry DequeueMin returns there still refers to entries of the heap.
C12_Witness ==
    /\ last.op \in {"Delete", "DequeueMin"}
    /\ Gone # {}
    /\ \E h \in Heaps :
           /\ HeapLen(heaps[h]) >= 3
           /\ mem[Min(heaps[h])].child # Nil
           /\ mem[Min(heaps[h])].next # Min(heaps[h])
           /\ \A r \in {DequeueMin(mem, heaps[h])} :
                  /\ r.mem[r.ret].child \in Entries(r.mem, r.f)
                  /\ r.mem[r.ret].next \in Entries(r.mem, r.f)

\* ---------------------------------------------------------------- C13 ---
\* C13: in every reachable state, every entry of a heap that has a parent
\* has a parent that the same heap holds and whose priority is at most its
\* own.
C13_HeapOrder ==
    \A h \in Heaps :
        \A x \in held[h] :
            mem[x].parent # Nil =>
                /\ mem[x].parent \in held[h]
                /\ mem[mem[x].parent].Priority <= mem[x].Priority

\* A DecreaseKey has succeeded and left a heap in which one child has the
\* priority of its parent and another child a priority above its parent's.
C13_Witness ==
    /\ last.op = "DecreaseKey"
    /\ last.err = NoError
    /\ \E h \in Heaps : \E x \in held[h], y \in held[h] :
           /\ mem[x].parent # Nil
           /\ mem[y].parent # Nil
           /\ mem[mem[x].parent].Priority = mem[x].Priority
           /\ mem[mem[y].parent].Priority < mem[y].Priority

C15_MinIsRoot ==
    \A h \in Heaps :
        HeapLen(heaps[h]) # 0 =>
            /\ mem[Min(heaps[h])].parent = Nil
            /\ Roots(mem, heaps[h])
                   = {x \in held[h] : mem[x].parent = Nil}
            /\ \A x \in Roots(mem, heaps[h]) :
                   mem[Min(heaps[h])].Priority <= mem[x].Priority

\* After a DequeueMin, a heap of several roots whose minimum has a child
\* of its own priority: consolidation has linked two roots that tied.
C15_Witness ==
    /\ last.op = "DequeueMin"
    /\ \E h \in Heaps :
           /\ Cardinality(Roots(mem, heaps[h])) >= 2
           /\ \E c \in held[h] :
                  /\ mem[c].parent = Min(heaps[h])
                  /\ mem[c].Priority = mem[Min(heaps[h])].Priority

\* ---------------------------------------------------------------- C16 ---
\* C16: in every reachable state and for every entry e of a heap,
\* e.next.prev and e.prev.next are e, and following next from e leads back
\* to e after meeting every other entry of e's ring (the entries of the
\* heap with the parent of e, or the roots if e has none) exactly once and
\* no other entry.
C16_RingsConsistent ==
    \A h \in Heaps :
        \A e \in held[h] :
            /\ mem[e].next \in held[h]
            /\ mem[e].prev \in held[h]
            /\ mem[mem[e].next].prev = e
            /\ mem[mem[e].prev].next = e
            /\ \A w \in {NextWalk(mem, e, e, <<>>)} :
                   /\ {w[i] : i \in 1..Len(w)}
                          = Siblings(mem, held[h], e) \ {e}
                   /\ Len(w) = Cardinality(Siblings(mem, held[h], e)) - 1

\* After a DecreaseKey that cut an entry, a heap with a root ring of
\* several entries and a child ring of two, one of them marked by the cut.
C16_Witness ==
    /\ last.op = "DecreaseKey"
    /\ last.err = NoError
    /\ \E h \in Heaps :
           /\ Cardinality(Roots(mem, heaps[h])) >= 2
           /\ \E x \in held[h] :
                  /\ mem[x].parent # Nil
                  /\ mem[x].next # x
                  /\ mem[x].marked

\* ---------------------------------------------------------------- C17 ---
\* C17: in every reachable state and for every entry e of a heap, e.child
\* is absent exactly when e.degree is 0, and e.degree is the number of
\* entries in the ring of e.child, which are exactly the entries of the
\* heap whose parent is e.
C17_DegreeCountsChildren ==
    \A h \in Heaps :
        \A e \in held[h] :
            /\ (mem[e].child = Nil) <=> (mem[e].degree = 0)
            /\ mem[e].child # Nil =>
                   /\ mem[e].degree
                          = Cardinality(Ring(mem, {mem[e].child}))
                   /\ mem[e].degree
                          = Len(NextWalk(mem, mem[e].child, mem[e].child,
                                         <<>>)) + 1
                   /\ Ring(mem, {mem[e].child})
                          = {x \in held[h] : mem[x].parent = e}
            /\ mem[e].child = Nil =>
                   {x \in held[h] : mem[x].parent = e} = {}

\* After a DecreaseKey that cut one of the two children of an entry: the
\* entry is marked, of degree 1, and its remaining child has a child.
C17_Witness ==
    /\ last.op = "DecreaseKey"
    /\ last.err = NoError
    /\ \E h \in Heaps : \E e \in held[h] :
           /\ mem[e].marked
           /\ mem[e].degree = 1
           /\ mem[mem[e].child].degree = 1

\* ---------------------------------------------------------------- C18 ---
\* C18: in every reachable state, a DequeueMin() that leaves the heap
\* non-empty leaves a root ring in which no two entries have the same
\* degree; and so is the heap of a program with one heap when a DequeueMin
\* or a Delete has just returned.
C18_RootsOfDistinctDegree ==
    /\ \A h \in Heaps :
           \A r \in {DequeueMin(mem, heaps[h])} :
               HeapLen(r.f) # 0 =>
                   \A x \in Roots(r.mem, r.f), y \in Roots(r.mem, r.f) :
                       x # y => r.mem[x].degree # r.mem[y].degree
    /\ last.op \in {"DequeueMin", "Delete"} /\ Len(heaps) = 1 =>
           \A x \in Roots(mem, heaps[1]), y \in Roots(mem, heaps[1]) :
               x # y => mem[x].degree # mem[y].degree

\* A DequeueMin has returned and left four entries in one tree, its root
\* of degree 2: consolidation has merged twice in a row.
C18_Witness ==
    /\ last.op = "DequeueMin"
    /\ Len(heaps) = 1
    /\ HeapLen(heaps[1]) = 4
    /\ Cardinality(Roots(mem, heaps[1])) = 1
    /\ mem[Min(heaps[1])].degree = 2
    /\ Gone = {1}

\* ---------------------------------------------------------------- C19 ---
\* C19: in every reachable state and for every entry e of a heap, the
\* decreaseKeyUnchecked(e, -infinity) of Delete(e) leaves e with priority
\* -infinity, without a parent, in the root ring, and as the heap's min,
\* with the heap holding the entries it held; and Delete(e) then takes out
\* e and no other entry, whatever the priorities of the others.
C19_DeleteCutsAndExtractsE ==
    \A h \in Heaps :
        \A e \in held[h] :
            /\ \A d \in {decreaseKeyUnchecked(mem, heaps[h], e, NegInf)} :
                   /\ d.mem[e].Priority = NegInf
                   /\ d.mem[e].parent = Nil
                   /\ Min(d.f) = e
                   /\ e \in Roots(d.mem, d.f)
                   /\ Entries(d.mem, d.f) = held[h]
                   /\ DequeueMin(d.mem, d.f).ret = e
            /\ \A r \in {Delete(mem, heaps[h], e)} :
                   /\ r.removed = e
                   /\ Entries(r.mem, r.f) = held[h] \ {e}

\* After a Delete, a heap in which an entry of priority -infinity is the
\* child of a parent of priority -infinity that is not the heap's min, the
\* min being of priority -infinity too.
C19_Witness ==
    /\ last.op = "Delete"
    /\ \E h \in Heaps : \E e \in held[h] :
           /\ mem[e].parent # Nil
           /\ mem[e].Priority = NegInf
           /\ mem[mem[e].parent].Priority = NegInf
           /\ mem[e].parent # Min(heaps[h])
           /\ mem[Min(heaps[h])].Priority = NegInf

RECURSIVE Ancestors(_, _)
Ancestors(m, e) ==
    IF m[e].parent = Nil THEN <<>>
    ELSE <<m[e].parent>> \o Ancestors(m, m[e].parent)

\* The number of marked entries at the head of the sequence of entries A.
RECURSIVE MarkedPrefix(_, _)
MarkedPrefix(m, A) ==
    IF A = <<>> \/ ~m[Head(A)].marked THEN 0
    ELSE 1 + MarkedPrefix(m, Tail(A))

\* C21: in every reachable state and for every entry e that has a parent,
\* cutNode(e) makes e an unmarked root; every ancestor of e below the first
\* unmarked one (all of them, the root included, if all are marked) was
\* marked and becomes an unmarked entry of the root ring without parent;
\* the first unmarked ancestor becomes marked and keeps its parent; and
\* every ancestor above it keeps its parent, child, degree, mark and
\* priority, and its ring links too unless it is a root.
C21_CascadingCut ==
    \A e \in held[1] :
        mem[e].parent # Nil =>
            \A A \in {Ancestors(mem, e)} :
            \A k \in {MarkedPrefix(mem, Ancestors(mem, e))} :
            \A r \in {cutNode(mem, heaps[1], e)} :
                /\ r.mem[e].parent = Nil
                /\ ~r.mem[e].marked
                /\ e \in RootsOf(r.mem, r.f)
                /\ \A i \in 1..k :
                       /\ r.mem[A[i]].parent = Nil
                       /\ ~r.mem[A[i]].marked
                       /\ A[i] \in RootsOf(r.mem, r.f)
                /\ k < Len(A) =>
                       /\ ~mem[A[k + 1]].marked
                       /\ r.mem[A[k + 1]].marked
                       /\ r.mem[A[k + 1]].parent = mem[A[k + 1]].parent
                /\ \A j \in (k + 2)..Len(A) :
                       /\ r.mem[A[j]].parent = mem[A[j]].parent
                       /\ r.mem[A[j]].child = mem[A[j]].child
                       /\ r.mem[A[j]].degree = mem[A[j]].degree
                       /\ r.mem[A[j]].marked = mem[A[j]].marked
                       /\ r.mem[A[j]].Priority = mem[A[j]].Priority
                       /\ mem[A[j]].parent # Nil => r.mem[A[j]] = mem[A[j]]

\* An entry whose parent is marked and has itself a parent: cutNode makes
\* the parent an unmarked root and marks the grandparent, which was not
\* marked.
C21_Witness ==
    \E e \in held[1] :
        /\ mem[e].parent # Nil
        /\ mem[mem[e].parent].marked
        /\ mem[mem[e].parent].parent # Nil
        /\ ~mem[mem[mem[e].parent].parent].marked
        /\ \E r \in {cutNode(mem, heaps[1], e)} :
               /\ r.mem[mem[e].parent].parent = Nil
               /\ ~r.mem[mem[e].parent].marked
               /\ r.mem[mem[mem[e].parent].parent].marked

RECURSIVE Fib(_)
Fib(n) == IF n <= 2 THEN 1 ELSE Fib(n - 1) + Fib(n - 2)

\* The entries of the subtree of e: e and the entries that have e among
\* their ancestors.
Subtree(m, S, e) ==
    {y \in S : y = e \/ \E i \in 1..Len(Ancestors(m, y)) :
                            Ancestors(m, y)[i] = e}

\* C23: in every reachable state, the subtree of every entry of a heap
\* holds at least Fib(degree + 2) entries, degree being the entry's.
C23_SubtreeAtLeastFib ==
    \A h \in Heaps :
        \A e \in held[h] :
            Cardinality(Subtree(mem, held[h], e)) >= Fib(mem[e].degree + 2)

\* After a DecreaseKey, an entry of degree 3 whose subtree holds exactly
\* Fib(5) = 5 entries, one of its children being marked.
C23_Witness ==
    /\ last.op = "DecreaseKey"
    /\ \E e \in held[1] :
           /\ mem[e].degree = 3
           /\ Cardinality(Subtree(mem, held[1], e)) = 5
           /\ \E y \in held[1] : mem[y].parent = e /\ mem[y].marked

\* ---------------------------------------------------------------- C25 ---
\* The ring that owner o refers to: the root ring of heap f if o is absent,
\* and else the ring of o's child.
RingOf(m, f, o) ==
    IF o = Nil THEN Roots(m, f)
    ELSE IF m[o].child = Nil THEN {}
    ELSE Ring(m, {m[o].child})

\* Following parent from e ends at an entry without parent in at most n
\* steps.
RECURSIVE ReachesRoot(_, _, _)
ReachesRoot(m, e, n) ==
    IF m[e].parent = Nil THEN TRUE
    ELSE IF n = 0 THEN FALSE
    ELSE ReachesRoot(m, m[e].parent, n - 1)

\* C25: in every reachable state and for every heap, every member of the
\* root ring is an entry of the heap without parent; every member of the
\* ring of the child of an entry x of the heap is an entry of the heap with
\* parent x; every entry of the heap is in exactly one of these rings; and
\* following parent from any entry ends at a root without meeting an entry
\* twice.
C25_ParentsAgreeWithRings ==
    \A h \in Heaps :
        /\ \A y \in RingOf(mem, heaps[h], Nil) :
               y \in held[h] /\ mem[y].parent = Nil
        /\ \A x \in held[h] :
               \A y \in RingOf(mem, heaps[h], x) :
                   y \in held[h] /\ mem[y].parent = x
        /\ \A e \in held[h] :
               Cardinality({o \in held[h] \cup {Nil} :
                               e \in RingOf(mem, heaps[h], o)}) = 1
        /\ \A e \in held[h] :
               ReachesRoot(mem, e, Cardinality(held[h]) - 1)

\* After a DecreaseKey, a heap with at least three roots, an entry with at
\* least two children and an entry with a grandparent.
C25_Witness ==
    /\ last.op = "DecreaseKey"
    /\ Cardinality(RingOf(mem, heaps[1], Nil)) >= 3
    /\ \E x \in held[1] : Cardinality(RingOf(mem, heaps[1], x)) >= 2
    /\ \E e \in held[1] :
           /\ mem[e].parent # Nil
           /\ mem[mem[e].parent].parent # Nil

\* ---------------------------------------------------------------- C24 ---
\* A call executed pass by pass ends in the state in which the operator of
\* the same call leaves the memory and the heap it started from.
StepsAgree ==
    run.pc = "return" =>
        CASE run.op = "DequeueMin" ->
                 \A r \in {DequeueMin(run.m0, run.f0)} :
                     mem = r.mem /\ heaps[1] = r.f /\ run.minElem = r.ret
          [] run.op = "DecreaseKey" ->
                 \A r \in {DecreaseKey(run.m0, run.f0, run.e, 0)} :
                     mem = r.mem /\ heaps[1] = r.f /\ r.err = NoError
          [] run.op = "Delete" ->
                 \A r \in {Delete(run.m0, run.f0, run.e)} :
                     mem = r.mem /\ heaps[1] = r.f
                                 /\ run.minElem = r.removed

\* The loops of a call in progress are within their bounds: the loop that
\* clears parents has made at most as many passes as minElem has children,
\* and exactly as many once it is left; toVisit holds no entry twice; the
\* consolidation has made fewer links than toVisit has entries; and
\* cutNode has made at most as many recursive calls as e had ancestors when
\* the call started.
LoopsBounded ==
    /\ run.minElem # Nil =>
           /\ run.passes <= mem[run.minElem].degree
           /\ run.pc \in {"splice", "collect", "merge", "return"}
                  => run.passes = mem[run.minElem].degree
    /\ \A j \in 1..Len(run.toVisit), k \in 1..Len(run.toVisit) :
           run.toVisit[j] = run.toVisit[k] => j = k
    /\ run.links <= Len(run.toVisit)
    /\ run.pc \in {"merge", "return"} /\ run.toVisit # <<>>
           => run.links < Len(run.toVisit)
    /\ run.e # Nil => run.recursions <= Len(Ancestors(run.m0, run.e))

\* C24: every call of DequeueMin, DecreaseKey and Delete that has started
\* returns, and until it does its loops stay within their bounds: the walk
\* of the child ring and the walk of the root ring come back to their
\* start without meeting an entry twice, the merging ends for every entry
\* of toVisit, and cutNode calls itself at most once per ancestor of the
\* entry that is cut.
C24_CallsTerminate ==
    /\ (run.pc # "idle") ~> (run.pc = "idle")
    /\ []LoopsBounded

\* A Delete about to return: cutNode has called itself, the loop that
\* clears parents has made at least two passes, toVisit holds at least
\* three roots and the consolidation has linked two of them.
C24_Witness ==
    /\ run.pc = "return"
    /\ run.op = "Delete"
    /\ run.recursions >= 1
    /\ run.passes >= 2
    /\ Len(run.toVisit) >= 3
    /\ run.links >= 1

\* ---------------------------------------------------------------- C26 ---
\* The invariants of the data model, on the one heap of SpecRace: min is
\* absent exactly when the size is 0; the size counts the entries the heap
\* holds, which are those reachable from min; heap order; min is a root of
\* least priority; every ring is consistent; degree counts the children;
\* parents agree with rings.
DataModel ==
    /\ (heaps[1].min = Nil) <=> (heaps[1].size = 0)
    /\ C3_LenCountsEntries
    /\ C13_HeapOrder
    /\ C15_MinIsRoot
    /\ C16_RingsConsistent
    /\ C17_DegreeCountsChildren
    /\ C25_ParentsAgreeWithRings

\* Every thread has made its call and has returned from it.
AllDone == \A t \in Threads : race.thr[t].pc = "done"

\* C26: if the threads take one lock around every call on the heap, the
\* invariants of the data model hold whenever no call is in progress (the
\* lock is free), and at most one thread is inside a call.  (Without the
\* lock a state that violates them after all calls have returned is
\* reachable: C26_Witness.)
C26_LockKeepsInvariants ==
    race.useLock =>
        /\ race.lock = 0 => DataModel
        /\ Cardinality({t \in Threads :
                           race.thr[t].pc \notin {"idle", "done"}}) <= 1

\* Without a lock: both threads have returned from their calls, and the
\* heap violates an invariant of the data model.
C26_Witness ==
    /\ ~race.useLock
    /\ race.thr # <<>>
    /\ AllDone
    /\ ~DataModel

====
